---- MODULE Spec2Model ----
(***************************************************************************)
(* ContentSocialSwarm: the platform agents' content optimisation and       *)
(* publishing (src/agents/platform_agents/*.py).                           *)
(*                                                                         *)
(* Python values are modelled as follows.  A str is a sequence of          *)
(* one-character strings.  A dict is a function whose domain is the set of *)
(* its keys.  Dicts and lists are mutable objects, so they live in a heap  *)
(* and are referred to by their index in it; an assignment such as         *)
(* optimized["text"] = ... writes through the reference.                   *)
(***************************************************************************)
EXTENDS Integers, Sequences, FiniteSets, TLC

VARIABLES
    heap,         \* [dict: sequence of dicts, list: sequence of lists]
    platform,     \* the adapter under consideration
    content,      \* reference of the dict passed to optimize_content
    before,       \* value of the input dict and of its hashtags list at the call
    optimized,    \* reference returned by optimize_content(content), 0 before
    reoptimized,  \* reference returned by optimize_content(optimized), 0 before
    settings,     \* the access tokens of Settings the agents read
    graph,        \* FacebookAgent.graph
    client,       \* TwitterAgent.client
    lifecycle,    \* the adapter's last lifecycle call and how it ended
    published,    \* the last publish_content call, <<>> before the first
    crm,          \* the last update_campaign_results call, <<>> before the first
    campaign,     \* the execute_campaign call: its position, its ExecutiveState
    collaborators, \* the calls execute_campaign made on its collaborators
    vs,           \* VectorStoreManager: its client, collection and encoder
    chroma,       \* the persistent ChromaDB collection: id -> record
    vsLast,       \* the last store / get / delete call, <<>> before the first
    mcp,          \* MCPManager: the connector objects and the registry
    app           \* the application lifespan: its position and its calls

optimizeVars == <<heap, platform, content, before, optimized, reoptimized>>
adapterVars == <<settings, graph, client, lifecycle, published, crm>>
campaignVars == <<campaign, collaborators>>
storeVars == <<vs, chroma, vsLast>>
appVars == <<mcp, app>>
vars == <<optimizeVars, adapterVars, campaignVars, storeVars, appVars>>

Platforms == {"facebook", "instagram", "tiktok", "twitter"}

\* the agents with an initialize / shutdown lifecycle: the platform adapters
\* and the CRM agent
Agents == Platforms \cup {"ghl"}

\* the ExecutiveAgent after construction: no campaign executed, no
\* collaborator called
NoCampaign ==
    /\ campaign = [pc |-> "idle", node |-> "none", state |-> <<>>,
                   statuses |-> <<>>, failed_at |-> "none", clock |-> 0,
                   result |-> <<>>]
    /\ collaborators = [generate |-> 0, publish |-> <<>>, memory |-> <<>>]

\* the VectorStoreManager after construction, on an empty storage directory
StoreConstructed ==
    /\ vs = [client |-> "None", collection |-> "None", encoder |-> "None"]
    /\ chroma = <<>>
    /\ vsLast = <<>>

\* the MCPManager after construction and the application before its lifespan
AppConstructed ==
    /\ mcp = [objects |-> <<>>, connectors |-> <<>>, last |-> "none"]
    /\ app = [pc |-> "start", agents |-> <<>>, trace |-> <<>>]

(***************************************************************************)
(* Bounds of the inputs.                                                   *)
(***************************************************************************)
Slack == 1          \* text lengths are taken within Slack of each threshold
MaxTags == 31       \* longest list of numbered hashtags
MaxSmall == 2       \* longest list over the small tag alphabet

Min(a, b) == IF a < b THEN a ELSE b
Max(a, b) == IF a > b THEN a ELSE b

(***************************************************************************)
(* Python str / list primitives.                                           *)
(***************************************************************************)
\* s[:k], for any integer k (a negative k counts from the end)
PySliceTo(s, k) ==
    IF k >= 0 THEN SubSeq(s, 1, Min(k, Len(s)))
    ELSE SubSeq(s, 1, Max(Len(s) + k, 0))

\* sep.join(parts)
RECURSIVE PyJoin(_, _)
PyJoin(sep, parts) ==
    IF parts = <<>> THEN <<>>
    ELSE IF Len(parts) = 1 THEN parts[1]
    ELSE parts[1] \o sep \o PyJoin(sep, Tail(parts))

\* [f"#{tag}" for tag in tags]
HashPrefixed(tags) == [i \in 1..Len(tags) |-> <<"#">> \o tags[i]]

Ellipsis == <<".", ".", ".">>

\* d.get(key, default)
DictGet(d, key, default) == IF key \in DOMAIN d THEN d[key] ELSE default

\* d[key] = value on a dict value
DictSet(d, key, value) ==
    [k \in DOMAIN d \cup {key} |-> IF k = key THEN value ELSE d[k]]

(***************************************************************************)
(* The heap.                                                               *)
(***************************************************************************)
\* the list a dict's "hashtags" refers to; content.get("hashtags", [])
HashtagsOf(h, ref) ==
    IF "hashtags" \in DOMAIN h.dict[ref] THEN h.list[h.dict[ref].hashtags] ELSE <<>>

\* content.get("text", "")
TextOf(h, ref) == DictGet(h.dict[ref], "text", <<>>)

\* optimized[key] = value, through the reference
SetItem(h, ref, key, value) ==
    [h EXCEPT !.dict[ref] = DictSet(h.dict[ref], key, value)]

\* a new list object holding value (a slice or a concatenation builds one)
NewList(h, value) == [h EXCEPT !.list = Append(h.list, value)]

\* optimized["hashtags"] = <new list holding value>
SetHashtags(h, ref, value) ==
    SetItem(NewList(h, value), ref, "hashtags", Len(h.list) + 1)

\* content.copy() without the copy: the result is the input object itself
dict_alias(h, ref) == [heap |-> h, ref |-> ref]

\* a new dict built from the two keys optimize_content works on
dict_from_known_keys(h, ref) ==
    [heap |-> [h EXCEPT !.dict =
                  Append(h.dict, [k \in DOMAIN h.dict[ref] \cap {"text", "hashtags"}
                                     |-> h.dict[ref][k]])],
     ref |-> Len(h.dict) + 1]

\* content.copy(): a new dict with the same keys and the same values
\* (a shallow copy: the hashtags list is shared)
dict_copy(h, ref) ==
    [heap |-> [h EXCEPT !.dict = Append(h.dict, h.dict[ref])],
     ref |-> Len(h.dict) + 1]

(***************************************************************************)
(* optimize_content of the four platform agents.  Each returns the heap    *)
(* after the call and the reference of the returned dict.                  *)
(***************************************************************************)
\* text[:keep] with no marker appended
cut_without_ellipsis(text, keep) == PySliceTo(text, keep)

\* text[:keep] + "..."
cut_with_ellipsis(text, keep) == PySliceTo(text, keep) \o Ellipsis

\* the last n hashtags instead of the first n
keep_last(hashtags, n) ==
    SubSeq(hashtags, Max(Len(hashtags) - n, 0) + 1, Len(hashtags))

\* hashtags[:n]
keep_first(hashtags, n) == PySliceTo(hashtags, n)

\* the whole pool appended, whatever is missing
pad_with_pool(hashtags, pool, minimum) == hashtags \o pool

\* hashtags + pool[:minimum - len(hashtags)]
pad_hashtags(hashtags, pool, minimum) ==
    hashtags \o PySliceTo(pool, minimum - Len(hashtags))

generic_hashtags ==
    << <<"#", "m", "a", "r", "k", "e", "t", "i", "n", "g">>,
       <<"#", "b", "u", "s", "i", "n", "e", "s", "s">>,
       <<"#", "s", "o", "c", "i", "a", "l", "m", "e", "d", "i", "a">>,
       <<"#", "c", "o", "n", "t", "e", "n", "t">> >>

tiktok_hashtags ==
    << <<"#", "f", "y", "p">>,
       <<"#", "v", "i", "r", "a", "l">>,
       <<"#", "t", "r", "e", "n", "d", "i", "n", "g">>,
       <<"#", "m", "a", "r", "k", "e", "t", "i", "n", "g">>,
       <<"#", "b", "u", "s", "i", "n", "e", "s", "s">> >>

FacebookAgent_optimize_content(h, c) ==
    LET cp == dict_copy(h, c)
        o  == cp.ref
        h1 == IF Len(TextOf(cp.heap, o)) > 500
              THEN SetItem(cp.heap, o, "text",
                           cut_with_ellipsis(cp.heap.dict[o].text, 497))
              ELSE cp.heap
        hashtags == HashtagsOf(h1, o)
        h2 == IF Len(hashtags) > 5
              THEN SetHashtags(h1, o, keep_first(hashtags, 5))
              ELSE h1
    IN  [heap |-> h2, ref |-> o]

InstagramAgent_optimize_content(h, c) ==
    LET cp == dict_copy(h, c)
        o  == cp.ref
        h1 == IF Len(TextOf(cp.heap, o)) > 300
              THEN SetItem(cp.heap, o, "text",
                           cut_with_ellipsis(cp.heap.dict[o].text, 297))
              ELSE cp.heap
        hashtags == HashtagsOf(h1, o)
        h2 == IF Len(hashtags) > 30
              THEN SetHashtags(h1, o, keep_first(hashtags, 30))
              ELSE IF Len(hashtags) < 10
              THEN SetHashtags(h1, o, pad_hashtags(hashtags, generic_hashtags, 10))
              ELSE h1
    IN  [heap |-> h2, ref |-> o]

TikTokAgent_optimize_content(h, c) ==
    LET cp == dict_copy(h, c)
        o  == cp.ref
        h1 == IF Len(TextOf(cp.heap, o)) > 2200
              THEN SetItem(cp.heap, o, "text",
                           cut_with_ellipsis(cp.heap.dict[o].text, 2197))
              ELSE cp.heap
        hashtags == HashtagsOf(h1, o)
        h2 == IF Len(hashtags) > 10
              THEN SetHashtags(h1, o, keep_first(hashtags, 10))
              ELSE IF Len(hashtags) < 3
              THEN SetHashtags(h1, o, pad_hashtags(hashtags, tiktok_hashtags, 3))
              ELSE h1
    IN  [heap |-> h2, ref |-> o]

\* " ".join(f"#{tag}" for tag in hashtags)
hashtag_text(hashtags) == PyJoin(<<" ">>, HashPrefixed(hashtags))

\* 280 - len(hashtag_text) - 2, the hashtag text being that of hashtags[:5]
available_chars(hashtags) == 280 - Len(hashtag_text(keep_first(hashtags, 5))) - 2

TwitterAgent_optimize_content(h, c) ==
    LET cp == dict_copy(h, c)
        o  == cp.ref
        text == TextOf(cp.heap, o)
        hashtags == HashtagsOf(cp.heap, o)
        available == available_chars(hashtags)
        h1 == IF Len(text) > available
              THEN SetItem(cp.heap, o, "text", cut_with_ellipsis(text, available - 3))
              ELSE cp.heap
        h2 == SetHashtags(h1, o, keep_first(hashtags, 5))
    IN  [heap |-> h2, ref |-> o]

\* the adapter selected by platform name
optimize_content(p, h, c) ==
    CASE p = "facebook"  -> FacebookAgent_optimize_content(h, c)
      [] p = "instagram" -> InstagramAgent_optimize_content(h, c)
      [] p = "tiktok"    -> TikTokAgent_optimize_content(h, c)
      [] p = "twitter"   -> TwitterAgent_optimize_content(h, c)

(***************************************************************************)
(* The contents optimize_content is called with.                           *)
(***************************************************************************)
Letters == <<"a", "b", "c", "d", "e", "f", "g">>
Digits == <<"0", "1", "2", "3", "4", "5", "6", "7", "8", "9">>

\* a text of n characters, no three consecutive ones equal
TextOfLen(n) == [i \in 1..n |-> Letters[(i % Len(Letters)) + 1]]

Thresholds == {264, 278, 280, 300, 500, 2200}
TextLens ==
    (0..Slack) \cup {t + d : t \in Thresholds, d \in (0 - Slack)..Slack}

\* the tag "t<i>", distinct for distinct i
NumTag(i) ==
    <<"t">> \o (IF i >= 10 THEN <<Digits[(i \div 10) + 1]>> ELSE <<>>)
            \o <<Digits[(i % 10) + 1]>>
NumberedTags(n) == [i \in 1..n |-> NumTag(i)]

\* the tags a, b, c, ...
LetterTags(n) == [i \in 1..n |-> <<Letters[i]>>]

\* a tag so long that the hashtags alone fill a tweet
LongTagLen == 275
LongTag == [i \in 1..LongTagLen |-> "y"]

SmallTags == {generic_hashtags[1], tiktok_hashtags[1], LongTag}

RECURSIVE SeqsUpTo(_, _)
SeqsUpTo(S, n) ==
    IF n = 0 THEN {<<>>}
    ELSE LET shorter == SeqsUpTo(S, n - 1)
         IN  shorter \cup {Append(q, x) : q \in shorter, x \in S}

HashtagLists ==
    {NumberedTags(n) : n \in 0..MaxTags}
    \cup {LetterTags(n) : n \in 0..Len(Letters)}
    \cup SeqsUpTo(SmallTags, MaxSmall)

\* a content dict with all its keys, and the heap that holds it
FullContent(text, hashtags) ==
    [dict |-> << [text |-> text, hashtags |-> 1, image_url |-> "url"] >>,
     list |-> << hashtags >>]

\* content dicts that lack a key
NoHashtagsContent(text) == [dict |-> << [text |-> text] >>, list |-> <<>>]
NoTextContent(hashtags) == [dict |-> << [hashtags |-> 1] >>, list |-> << hashtags >>]

InputHeaps ==
    {FullContent(TextOfLen(n), tags) : n \in TextLens, tags \in HashtagLists}
    \cup {NoHashtagsContent(TextOfLen(n)) : n \in TextLens}
    \cup {NoTextContent(tags) : tags \in HashtagLists}

\* the value of a dict: its keys, with the hashtags list in place of its reference
Value(h, ref) ==
    [k \in DOMAIN h.dict[ref] |->
        IF k = "hashtags" THEN h.list[h.dict[ref][k]] ELSE h.dict[ref][k]]

(***************************************************************************)
(* The adapters after construction (__init__): no Graph API object, no     *)
(* tweepy client, no lifecycle call made, nothing published.               *)
(***************************************************************************)
None == "None"

AdaptersConstructed ==
    /\ settings = [FACEBOOK_ACCESS_TOKEN |-> None, TIKTOK_ACCESS_TOKEN |-> None]
    /\ graph = None
    /\ client = None
    /\ lifecycle = "constructed"
    /\ published = <<>>
    /\ crm = <<>>

(***************************************************************************)
(* Specification of the optimisation: one call on an input content, then   *)
(* one call on its result.                                                 *)
(***************************************************************************)
InitOptimize ==
    /\ platform \in Platforms
    /\ heap \in InputHeaps
    /\ content = 1
    /\ before = [dict |-> heap.dict[1], hashtags |-> HashtagsOf(heap, 1)]
    /\ optimized = 0
    /\ reoptimized = 0
    /\ AdaptersConstructed
    /\ NoCampaign
    /\ StoreConstructed
    /\ AppConstructed

Optimize ==
    /\ optimized = 0
    /\ LET r == optimize_content(platform, heap, content)
       IN  /\ heap' = r.heap
           /\ optimized' = r.ref
    /\ UNCHANGED <<platform, content, before, reoptimized, adapterVars, campaignVars, storeVars, appVars>>

Reoptimize ==
    /\ optimized # 0
    /\ reoptimized = 0
    /\ LET r == optimize_content(platform, heap, optimized)
       IN  /\ heap' = r.heap
           /\ reoptimized' = r.ref
    /\ UNCHANGED <<platform, content, before, optimized, adapterVars, campaignVars, storeVars, appVars>>

NextOptimize == Optimize \/ Reoptimize

SpecOptimize == InitOptimize /\ [][NextOptimize]_vars

(***************************************************************************)
(* Lifecycle and publish_content of the four platform agents.              *)
(*                                                                         *)
(* A call either returns a value or raises; `except Exception as e` turns  *)
(* a raise in the try body into the "failed" result.  The external clients *)
(* (facebook.GraphAPI, tweepy.Client, requests) are inputs: what they      *)
(* answer is drawn from the sets below.                                    *)
(***************************************************************************)
Return(value) == [kind |-> "return", value |-> value]
Raise(error) == [kind |-> "raise", error |-> error]

\* Python truthiness of an Optional[str]
Truthy(x) == x # None /\ x # ""

EmptyDict == [k \in {} |-> k]

\* the try body's exception escapes
reraise(outcome, p, client_id) == outcome

\* the handler's dict without the client reference
except_without_client(outcome, p, client_id) ==
    IF outcome.kind = "raise"
    THEN Return([status |-> "failed", platform |-> p, error |-> outcome.error])
    ELSE outcome

\* try: <body>  except Exception as e: return {"status": "failed", ...}
try_except(outcome, p, client_id) ==
    IF outcome.kind = "raise"
    THEN Return([status |-> "failed", platform |-> p,
                 error |-> outcome.error, client_id |-> client_id])
    ELSE outcome

\* f"{text}\n\n{hashtag_text}"
with_hashtags(text, hashtags) ==
    text \o <<"\n", "\n">> \o hashtag_text(hashtags)

\* what graph.put_object does: it raises, or returns None, or a dict
PutObjectAnswers ==
    {[kind |-> "raises"], [kind |-> "none"],
     [kind |-> "dict", dict |-> EmptyDict],
     [kind |-> "dict", dict |-> [id |-> "fb_1"]]}

FacebookAgent_publish_content(g, c, client_id, ext) ==
    LET post_data ==
            IF Truthy(DictGet(c, "image_url", None))
            THEN [message |-> DictGet(c, "text", <<>>), link |-> c.image_url]
            ELSE [message |-> DictGet(c, "text", <<>>)]
        body ==
            IF g = None THEN Raise("Facebook Graph API not initialized")
            ELSE IF ext.kind = "raises" THEN Raise("GraphAPIError")
            ELSE IF ext.kind = "none" THEN Raise("AttributeError")
            ELSE Return([status |-> "success", platform |-> "facebook",
                         post_id |-> DictGet(ext.dict, "id", None),
                         client_id |-> client_id])
    IN  [outcome |-> try_except(body, "facebook", client_id),
         calls |-> IF g = None THEN <<>> ELSE <<post_data>>]

\* what hash(caption) % 10000 gives
HashAnswers == {[kind |-> "hash", h |-> "0"], [kind |-> "hash", h |-> "9999"]}

InstagramAgent_publish_content(token, c, client_id, ext) ==
    LET text == DictGet(c, "text", <<>>)
        hashtags == DictGet(c, "hashtags", <<>>)
        caption == IF hashtags # <<>> THEN with_hashtags(text, hashtags) ELSE text
        body ==
            IF ~Truthy(token) THEN Raise("Instagram access token not configured")
            ELSE Return([status |-> "success", platform |-> "instagram",
                         post_id |-> <<"ig_", client_id, "_", ext.h>>,
                         client_id |-> client_id, caption |-> caption])
    IN  [outcome |-> try_except(body, "instagram", client_id), calls |-> <<>>]

TikTokAgent_publish_content(c, client_id, ext) ==
    LET text == DictGet(c, "text", <<>>)
        hashtags == DictGet(c, "hashtags", <<>>)
        description == IF hashtags # <<>> THEN with_hashtags(text, hashtags) ELSE text
        body ==
            Return([status |-> "success", platform |-> "tiktok",
                    post_id |-> <<"tiktok_", client_id, "_", ext.h>>,
                    client_id |-> client_id, description |-> description,
                    note |-> "TikTok posting requires video content - this is a simulation"])
    IN  [outcome |-> try_except(body, "tiktok", client_id), calls |-> <<>>]

\* what client.create_tweet does: it raises, or returns None, or a response
\* whose data is None, an empty dict, a dict without "id", a dict with "id"
CreateTweetAnswers ==
    {[kind |-> "raises"], [kind |-> "none"],
     [kind |-> "response", data |-> [none |-> TRUE, dict |-> EmptyDict]],
     [kind |-> "response", data |-> [none |-> FALSE, dict |-> EmptyDict]],
     [kind |-> "response", data |-> [none |-> FALSE, dict |-> [text |-> "t"]]],
     [kind |-> "response", data |-> [none |-> FALSE, dict |-> [id |-> "tw_1"]]]}

\* the text publish_content hands to create_tweet
tweet_text(c) ==
    LET text == DictGet(c, "text", <<>>)
        hashtags == DictGet(c, "hashtags", <<>>)
        composed == IF hashtags # <<>> THEN with_hashtags(text, hashtags) ELSE text
    IN  IF Len(composed) > 280 THEN cut_with_ellipsis(composed, 277) ELSE composed

TwitterAgent_publish_content(cl, c, client_id, ext) ==
    LET body ==
            IF cl = None THEN Raise("Twitter client not initialized")
            ELSE IF ext.kind = "raises" THEN Raise("TweepyException")
            ELSE IF ext.kind = "none" THEN Raise("AttributeError")
            ELSE IF ext.data.none \/ DOMAIN ext.data.dict = {}
                 THEN Raise("Tweet creation failed - no response data")
            ELSE IF "id" \notin DOMAIN ext.data.dict THEN Raise("KeyError")
            ELSE Return([status |-> "success", platform |-> "twitter",
                         post_id |-> ext.data.dict.id,
                         client_id |-> client_id, text |-> tweet_text(c)])
    IN  [outcome |-> try_except(body, "twitter", client_id),
         calls |-> IF cl = None THEN <<>> ELSE <<[text |-> tweet_text(c)]>>]

\* what the external client can answer to publish_content of adapter p
PublishAnswers(p) ==
    CASE p = "facebook" -> PutObjectAnswers
      [] p = "twitter" -> CreateTweetAnswers
      [] OTHER -> HashAnswers

\* the adapter selected by platform name
publish_content(p, c, client_id, ext) ==
    CASE p = "facebook"  -> FacebookAgent_publish_content(graph, c, client_id, ext)
      [] p = "instagram" ->
            InstagramAgent_publish_content(settings.FACEBOOK_ACCESS_TOKEN, c, client_id, ext)
      [] p = "tiktok"    -> TikTokAgent_publish_content(c, client_id, ext)
      [] p = "twitter"   -> TwitterAgent_publish_content(client, c, client_id, ext)

(***************************************************************************)
(* initialize: what the external side does during it.                      *)
(*   "raises"   the constructor (GraphAPI, tweepy.Client) or the request   *)
(*              raises                                                     *)
(*   "rejected" the credentials check answers, but not with success        *)
(*              (status_code # 200, get_me raises or me.data is empty)     *)
(*   "ok"       the check succeeds                                         *)
(***************************************************************************)
InitializeAnswers == {"raises", "rejected", "ok"}

\* self.graph after FacebookAgent.initialize (which makes no request)
FacebookAgent_initialize(g, ext) == IF ext = "raises" THEN g ELSE "GraphAPI"

\* self.client after TwitterAgent.initialize: assigned before get_me is called
TwitterAgent_initialize(cl, ext) == IF ext = "raises" THEN cl ELSE "Client"

\* whether initialize of adapter p logs "initialized successfully"
initialize_succeeds(p, ext) ==
    CASE p = "facebook"  -> ext # "raises"
      [] p = "instagram" -> Truthy(settings.FACEBOOK_ACCESS_TOKEN) /\ ext = "ok"
      [] p = "tiktok"    -> Truthy(settings.TIKTOK_ACCESS_TOKEN) /\ ext = "ok"
      [] p = "twitter"   -> ext = "ok"
      [] p = "ghl"       -> ext = "ok"

ClientIds == {"client_1", "client_2"}
Tokens == {None, "", "token"}

\* the contents publish_content is called with
PublishContents ==
    {EmptyDict,
     [text |-> TextOfLen(2), hashtags |-> <<>>, image_url |-> "url"],
     [text |-> TextOfLen(2), hashtags |-> LetterTags(2)],
     [text |-> TextOfLen(278), hashtags |-> LetterTags(2)]}

\* only the token the adapter reads varies: the other one is left unset
TokenRead(p, st) ==
    /\ p \notin {"facebook", "instagram"} => st.FACEBOOK_ACCESS_TOKEN = None
    /\ p # "tiktok" => st.TIKTOK_ACCESS_TOKEN = None

InitAdapters ==
    /\ platform \in Agents
    /\ settings \in [FACEBOOK_ACCESS_TOKEN : Tokens, TIKTOK_ACCESS_TOKEN : Tokens]
    /\ TokenRead(platform, settings)
    /\ graph = None
    /\ client = None
    /\ lifecycle = "constructed"
    /\ published = <<>>
    /\ crm = <<>>
    /\ heap = [dict |-> <<>>, list |-> <<>>]
    /\ content = 0
    /\ before = <<>>
    /\ optimized = 0
    /\ reoptimized = 0
    /\ NoCampaign
    /\ StoreConstructed
    /\ AppConstructed

\* await agent.initialize(), on the adapter `platform`
Initialize ==
    \E ext \in InitializeAnswers :
        /\ graph' = IF platform = "facebook"
                    THEN FacebookAgent_initialize(graph, ext) ELSE graph
        /\ client' = IF platform = "twitter"
                     THEN TwitterAgent_initialize(client, ext) ELSE client
        /\ lifecycle' = IF initialize_succeeds(platform, ext)
                        THEN "initialized" ELSE "initialize_failed"
        /\ UNCHANGED <<settings, published, crm, optimizeVars, campaignVars, storeVars, appVars>>

\* a shutdown that closes the connection object it holds
shutdown_closing_connection(p, g, cl) ==
    [graph |-> IF p = "facebook" THEN None ELSE g,
     client |-> IF p = "twitter" THEN None ELSE cl,
     outcome |-> IF (p = "facebook" /\ g = None) \/ (p = "twitter" /\ cl = None)
                 THEN Raise("'NoneType' object has no attribute 'close'")
                 ELSE Return(None)]

\* shutdown of agent p: FacebookAgent drops self.graph, TwitterAgent drops
\* self.client, the other agents only log
shutdown(p, g, cl) ==
    [graph |-> IF p = "facebook" THEN None ELSE g,
     client |-> IF p = "twitter" THEN None ELSE cl,
     outcome |-> Return(None)]

\* await agent.shutdown()
Shutdown ==
    LET r == shutdown(platform, graph, client)
    IN  /\ graph' = r.graph
        /\ client' = r.client
        /\ lifecycle' = IF r.outcome.kind = "raise"
                        THEN "shutdown_raised" ELSE "shutdown"
        /\ UNCHANGED <<settings, published, crm, optimizeVars, campaignVars, storeVars, appVars>>

\* await agent.publish_content(content, client_id)
Publish ==
    \E c \in PublishContents, client_id \in ClientIds :
        \E ext \in IF platform \in Platforms THEN PublishAnswers(platform) ELSE {} :
            LET r == publish_content(platform, c, client_id, ext)
            IN  /\ published' = << [client_id |-> client_id, content |-> c,
                                    lifecycle |-> lifecycle, answer |-> ext,
                                    outcome |-> r.outcome, calls |-> r.calls] >>
                /\ UNCHANGED <<settings, graph, client, lifecycle, crm, optimizeVars, campaignVars, storeVars, appVars>>

(***************************************************************************)
(* GHLAgent.update_campaign_results (platform_agents/ghl_agent.py).        *)
(* campaign_data is a dict; its published_content is [none |-> TRUE] for   *)
(* None and [none |-> FALSE, dict |-> d] for the dict d.  requests.post is *)
(* external: it raises, or answers with a status code and a body.          *)
(***************************************************************************)
\* every status that is present maps to "won"
won_when_present(status) == IF status # None THEN "won" ELSE "open"

\* "won" if campaign_data.get("status") == "completed" else "open"
opportunity_status(status) == IF status = "completed" THEN "won" ELSE "open"

\* list(campaign_data.get("published_content", {}).keys()), as a set
platforms_used(campaign_data) ==
    IF "published_content" \in DOMAIN campaign_data
    THEN DOMAIN campaign_data.published_content.dict
    ELSE {}

PostAnswers ==
    {[kind |-> "raises"],
     [kind |-> "response", status_code |-> 200, json |-> "dict", id |-> "opp_1"],
     [kind |-> "response", status_code |-> 201, json |-> "dict", id |-> None],
     [kind |-> "response", status_code |-> 201, json |-> "raises", id |-> None],
     [kind |-> "response", status_code |-> 404, json |-> "dict", id |-> None],
     [kind |-> "response", status_code |-> 500, json |-> "raises", id |-> None]}

\* the try body; calls holds the opportunity posted, if the post was reached
GHLAgent_update_campaign_results(client_id, campaign_data, ext) ==
    IF "published_content" \in DOMAIN campaign_data
           /\ campaign_data.published_content.none
    THEN [calls |-> <<>>,
          outcome |-> Raise("'NoneType' object has no attribute 'keys'")]
    ELSE LET opportunity_data ==
                 [title |-> client_id,
                  status |-> opportunity_status(
                                 DictGet(campaign_data, "status", None)),
                  contactId |-> client_id,
                  platforms_used |-> platforms_used(campaign_data)]
             posted == <<opportunity_data>>
         IN  IF ext.kind = "raises"
             THEN [calls |-> posted, outcome |-> Raise("post")]
             ELSE IF ext.status_code \in {200, 201}
             THEN IF ext.json = "raises"
                  THEN [calls |-> posted, outcome |-> Raise("json")]
                  ELSE [calls |-> posted,
                        outcome |-> Return([status |-> "success",
                                            ghl_opportunity_id |-> ext.id,
                                            contactId |-> client_id])]
             ELSE [calls |-> posted,
                   outcome |-> Return([status |-> "failed",
                                       error |-> "response.text"])]

\* except Exception as e: return {"status": "failed", "error": str(e)}
ghl_try_except(outcome) ==
    IF outcome.kind = "raise"
    THEN Return([status |-> "failed", error |-> outcome.error])
    ELSE outcome

CampaignDatas ==
    {EmptyDict,
     [status |-> "completed"],
     [status |-> "Completed"],
     [status |-> "started",
      published_content |-> [none |-> FALSE, dict |-> EmptyDict]],
     [status |-> "completed",
      published_content |-> [none |-> FALSE, dict |-> [facebook |-> "r"]]],
     [status |-> "completed", published_content |-> [none |-> TRUE]],
     [status |-> None]}

\* await ghl_agent.update_campaign_results(client_id, campaign_data)
UpdateCampaignResults ==
    /\ platform = "ghl"
    /\ \E client_id \in ClientIds, campaign_data \in CampaignDatas,
          ext \in PostAnswers :
           LET r == GHLAgent_update_campaign_results(
                        client_id, campaign_data, ext)
           IN  crm' = << [client_id |-> client_id,
                          campaign_data |-> campaign_data,
                          answer |-> ext, calls |-> r.calls,
                          outcome |-> ghl_try_except(r.outcome)] >>
    /\ UNCHANGED <<settings, graph, client, lifecycle, published, optimizeVars, campaignVars, storeVars, appVars>>

NextAdapters == Initialize \/ Shutdown \/ Publish \/ UpdateCampaignResults

SpecAdapters == InitAdapters /\ [][NextAdapters]_vars


(***************************************************************************)
(* Properties of optimize_content.                                         *)
(***************************************************************************)
\* the platform constraints as the specification tabulates them
MaxTextLength(p) ==
    CASE p = "facebook" -> 500 [] p = "instagram" -> 300
      [] p = "tiktok" -> 2200 [] p = "twitter" -> 280
MaxHashtags(p) ==
    CASE p = "facebook" -> 5 [] p = "instagram" -> 30
      [] p = "tiktok" -> 10 [] p = "twitter" -> 5
MinHashtags(p) ==
    CASE p = "facebook" -> 0 [] p = "instagram" -> 10
      [] p = "tiktok" -> 3 [] p = "twitter" -> 0
DefaultPool(p) ==
    CASE p = "instagram" -> generic_hashtags [] p = "tiktok" -> tiktok_hashtags
      [] OTHER -> <<>>

Optimized == optimized # 0
InText == DictGet(before.dict, "text", <<>>)
InTags == before.hashtags
OutText == TextOf(heap, optimized)
OutTags == HashtagsOf(heap, optimized)

EndsWithEllipsis(t) ==
    /\ Len(t) >= 3
    /\ t[Len(t) - 2] = "." /\ t[Len(t) - 1] = "." /\ t[Len(t)] = "."

IsPrefix(s, t) == Len(s) <= Len(t) /\ \A i \in 1..Len(s) : s[i] = t[i]

Occurrences(x, q) == Cardinality({i \in 1..Len(q) : q[i] = x})

\* the number of characters the first five hashtags take in a tweet: each
\* with its '#', one space between two
RECURSIVE TagChars(_)
TagChars(tags) ==
    IF tags = <<>> THEN 0
    ELSE 1 + Len(tags[1]) + (IF Len(tags) > 1 THEN 1 ELSE 0) + TagChars(Tail(tags))
TwitterBudget(tags) == 278 - TagChars(SubSeq(tags, 1, Min(Len(tags), 5)))

C2_OutputSatisfiesConstraint ==
    Optimized =>
        /\ Len(OutText) <= MaxTextLength(platform)
        /\ MinHashtags(platform) <= Len(OutTags)
        /\ Len(OutTags) <= MaxHashtags(platform)

\* C3: with more hashtags than maxHashtags, the output hashtags are exactly the
\* first maxHashtags of the input, in the input order.
C3_KeepsFirstMaxHashtags ==
    (Optimized /\ Len(InTags) > MaxHashtags(platform))
        => OutTags = SubSeq(InTags, 1, MaxHashtags(platform))

C3_Witness ==
    /\ Optimized /\ platform = "instagram"
    /\ Len(InTags) = 31 /\ Len(OutTags) = 30

\* C4: with fewer hashtags than minHashtags and a default pool that holds the
\* missing number, Instagram and TikTok return exactly minHashtags hashtags,
\* the input hashtags first and in their order.
C4_PadsToMinHashtags ==
    (/\ Optimized /\ platform \in {"instagram", "tiktok"}
     /\ Len(InTags) < MinHashtags(platform)
     /\ Len(DefaultPool(platform)) >= MinHashtags(platform) - Len(InTags))
        => (Len(OutTags) = MinHashtags(platform) /\ IsPrefix(InTags, OutTags))

C4_Witness ==
    /\ Optimized /\ platform = "instagram"
    /\ Len(InTags) = 7 /\ Len(OutTags) = 10
    /\ OutTags[8] = generic_hashtags[1]

\* C5 (as claimed): padding never duplicates a tag of the default pool: a pool
\* tag that occurs at most once in the input occurs at most once in the output.
C5_PaddingNeverDuplicates ==
    (Optimized /\ platform \in {"instagram", "tiktok"})
        => \A i \in 1..Len(DefaultPool(platform)) :
              Occurrences(DefaultPool(platform)[i], InTags) <= 1
                  => Occurrences(DefaultPool(platform)[i], OutTags) <= 1

\* C6 (as claimed): optimize_content(optimize_content(c)) equals
\* optimize_content(c): same keys, same text, same hashtag sequence.
C6_Idempotent ==
    reoptimized # 0 => Value(heap, reoptimized) = Value(heap, optimized)

\* C7: optimize_content does not mutate its input: the input dict and the list
\* object its "hashtags" referred to hold their values of before the call, and
\* the returned dict is another object than the input.
C7_InputNotMutated ==
    Optimized =>
        /\ heap.dict[content] = before.dict
        /\ HashtagsOf(heap, content) = before.hashtags
        /\ optimized # content

C7_Witness ==
    /\ Optimized /\ platform = "facebook"
    /\ Len(InText) > 500 /\ Len(InTags) > 5
    /\ Len(OutText) = 500 /\ Len(OutTags) = 5
    /\ Len(TextOf(heap, content)) > 500 /\ Len(HashtagsOf(heap, content)) > 5

(***************************************************************************)
(* Properties of publish_content.                                          *)
(***************************************************************************)
Published == published # <<>>
Last == published[1]
LastStatus == Last.outcome.value.status

\* the external create-post call was made and its answer holds no post id
AnswerLacksPostId ==
    /\ Last.calls # <<>>
    /\ \/ Last.answer.kind = "none"
       \/ Last.answer.kind = "dict" /\ "id" \notin DOMAIN Last.answer.dict
       \/ Last.answer.kind = "response"
            /\ (Last.answer.data.none \/ "id" \notin DOMAIN Last.answer.data.dict)

\* C8: publish_content never raises: whatever the connection state and the
\* external client's answer (a raise, None, a response without data or id), the
\* call returns a result whose status is "success" or "failed".
C8_PublishNeverRaises ==
    Published =>
        /\ Last.outcome.kind = "return"
        /\ LastStatus \in {"success", "failed"}

C8_Witness ==
    /\ Published /\ platform = "twitter"
    /\ Last.calls # <<>> /\ Last.answer.kind = "raises"
    /\ Last.outcome.kind = "return" /\ LastStatus = "failed"

\* C9 (as claimed): publish_content called on an adapter with no active
\* connection (initialize never called, initialize failed, or shutdown called)
\* returns a Failure: status "failed" with an error message.
C9_NoConnectionFails ==
    (Published /\ Last.lifecycle # "initialized")
        => (/\ Last.outcome.kind = "return"
            /\ LastStatus = "failed"
            /\ "error" \in DOMAIN Last.outcome.value)

\* C10 (as claimed): on Facebook and Twitter, an external answer without a
\* post identifier gives a Failure, and every Success carries a post_id that
\* is not None.
C10_SuccessCarriesPostId ==
    (Published /\ platform \in {"facebook", "twitter"} /\ Last.outcome.kind = "return")
        => /\ AnswerLacksPostId => LastStatus = "failed"
           /\ LastStatus = "success" => Last.outcome.value.post_id # None

\* C11: every result of publish_content is exactly one of the two variants, a
\* Success (status "success", a post_id key, no error key) or a Failure (status
\* "failed", an error key, no post_id key), and both carry the adapter's
\* platform name and the client_id the caller passed.
C11_ExactlyOneVariant ==
    Published =>
        /\ Last.outcome.kind = "return"
        /\ LET result == Last.outcome.value
           IN  /\ \/ /\ result.status = "success"
                     /\ "post_id" \in DOMAIN result
                     /\ "error" \notin DOMAIN result
                  \/ /\ result.status = "failed"
                     /\ "error" \in DOMAIN result
                     /\ "post_id" \notin DOMAIN result
               /\ "platform" \in DOMAIN result /\ result.platform = platform
               /\ "client_id" \in DOMAIN result /\ result.client_id = Last.client_id

C11_Witness ==
    /\ Published /\ platform = "instagram"
    /\ Last.client_id = "client_2"
    /\ LastStatus = "failed"
    /\ Last.outcome.value.client_id = "client_2"

(***************************************************************************)
(* ExecutiveAgent.execute_campaign (src/agents/executive_agent.py).        *)
(*                                                                         *)
(* The compiled LangGraph workflow is an external engine: ainvoke runs the *)
(* node at the entry point, then follows the edges to END, and returns the *)
(* state; it raises when running a node raises.  Each node runs as one     *)
(* step.  datetime.now() is a clock that advances at every reading.        *)
(***************************************************************************)
MaxTargets == 3     \* longest target_platforms list

\* the platform ids a caller may pass; "linkedin" has no adapter
TargetIds == Platforms \cup {"linkedin"}

CampaignIds == {None, "campaign_1"}

\* ExecutiveState(...) of execute_campaign
initial_state(client_id, objective, content_brief, target_platforms, campaign_id, now) ==
    [client_id |-> client_id,
     campaign_id |-> campaign_id,
     objective |-> objective,
     content_brief |-> content_brief,
     target_platforms |-> target_platforms,
     generated_content |-> EmptyDict,
     published_content |-> EmptyDict,
     analytics_data |-> EmptyDict,
     ghl_data |-> EmptyDict,
     error_messages |-> <<>>,
     status |-> "started",
     created_at |-> now,
     updated_at |-> now + 1]

_analyze_brief(state, now) ==
    [state EXCEPT !.status = "brief_analyzed", !.updated_at = now]

_generate_content(state, now) ==
    [state EXCEPT !.status = "content_generated", !.updated_at = now]

_finalize(state, now) ==
    [state EXCEPT !.status = "completed", !.updated_at = now]

\* workflow.set_entry_point
entry_point == "analyze_brief"

\* an edge that leaves out the content generation
edge_skipping_generation(node) ==
    CASE node = "analyze_brief" -> "finalize"
      [] node = "generate_content" -> "finalize"
      [] node = "finalize" -> "END"

\* workflow.add_edge
workflow_edge(node) ==
    CASE node = "analyze_brief" -> "generate_content"
      [] node = "generate_content" -> "finalize"
      [] node = "finalize" -> "END"

\* the function workflow.add_node binds to the node
run_node(node, state, now) ==
    CASE node = "analyze_brief" -> _analyze_brief(state, now)
      [] node = "generate_content" -> _generate_content(state, now)
      [] node = "finalize" -> _finalize(state, now)

\* a handler that logs the error and returns the state it has
swallow_error(c, node) ==
    [c EXCEPT !.pc = "returned", !.failed_at = node, !.result = <<c.state>>]

\* except Exception as e: logger.error(...); raise
reraise_error(c, node) == [c EXCEPT !.pc = "raised", !.failed_at = node]

NoOptimize ==
    /\ heap = [dict |-> <<>>, list |-> <<>>]
    /\ platform = "facebook"
    /\ content = 0
    /\ before = <<>>
    /\ optimized = 0
    /\ reoptimized = 0

InitCampaign ==
    /\ NoCampaign
    /\ StoreConstructed
    /\ AppConstructed
    /\ NoOptimize
    /\ AdaptersConstructed

\* await executive_agent.execute_campaign(...), up to the call of ainvoke
ExecuteCampaign ==
    /\ campaign.pc = "idle"
    /\ \E client_id \in ClientIds, campaign_id \in CampaignIds,
          target_platforms \in SeqsUpTo(TargetIds, MaxTargets) :
          campaign' =
              [campaign EXCEPT
                  !.pc = "workflow",
                  !.node = entry_point,
                  !.state = initial_state(client_id, "objective", "brief",
                                          target_platforms, campaign_id,
                                          campaign.clock),
                  !.statuses = <<"started">>,
                  !.clock = campaign.clock + 2]
    /\ UNCHANGED <<collaborators, optimizeVars, adapterVars, storeVars, appVars>>

\* ainvoke runs the next node of the workflow
WorkflowStep ==
    /\ campaign.pc = "workflow"
    /\ campaign.node # "END"
    /\ LET state == run_node(campaign.node, campaign.state, campaign.clock)
       IN  campaign' =
               [campaign EXCEPT
                   !.state = state,
                   !.node = workflow_edge(campaign.node),
                   !.statuses = Append(campaign.statuses, state.status),
                   !.clock = campaign.clock + 1]
    /\ UNCHANGED <<collaborators, optimizeVars, adapterVars, storeVars, appVars>>

\* running the next node raises: ainvoke raises, and the handler of
\* execute_campaign runs
WorkflowRaises ==
    /\ campaign.pc = "workflow"
    /\ campaign.node # "END"
    /\ campaign' = reraise_error(campaign, campaign.node)
    /\ UNCHANGED <<collaborators, optimizeVars, adapterVars, storeVars, appVars>>

\* ainvoke returns the final state, and execute_campaign returns it
WorkflowReturns ==
    /\ campaign.pc = "workflow"
    /\ campaign.node = "END"
    /\ campaign' = [campaign EXCEPT !.pc = "returned", !.result = <<campaign.state>>]
    /\ UNCHANGED <<collaborators, optimizeVars, adapterVars, storeVars, appVars>>

NextCampaign ==
    ExecuteCampaign \/ WorkflowStep \/ WorkflowRaises \/ WorkflowReturns

SpecCampaign == InitCampaign /\ [][NextCampaign]_vars

(***************************************************************************)
(* Properties of execute_campaign.                                         *)
(***************************************************************************)
Returned == campaign.pc = "returned"
Result == campaign.result[1]

\* the adapters the ExecutiveAgent constructs, by platform id
RegisteredAdapters == Platforms

Targets(state) == {state.target_platforms[i] : i \in 1..Len(state.target_platforms)}

IsPublishResult(r) ==
    /\ "status" \in DOMAIN r
    /\ r.status \in {"success", "failed"}

\* C12 (as claimed): the status follows exactly started -> content_generated
\* -> completed: no other value, no regression, no transition skipped.
C12_ThreeStatuses ==
    /\ IsPrefix(campaign.statuses, <<"started", "content_generated", "completed">>)
    /\ Returned => campaign.statuses = <<"started", "content_generated", "completed">>

\* C12 (amended): the status follows exactly started -> brief_analyzed ->
\* content_generated -> completed: at every moment the statuses taken so far
\* are a prefix of that sequence, and a call that returns has taken all four.
C12_FourStatuses ==
    /\ IsPrefix(campaign.statuses,
                <<"started", "brief_analyzed", "content_generated", "completed">>)
    /\ campaign.pc # "idle" => campaign.state.status = campaign.statuses[Len(campaign.statuses)]
    /\ Returned =>
          campaign.statuses = <<"started", "brief_analyzed", "content_generated", "completed">>

C12_Witness ==
    /\ Returned
    /\ Result.status = "completed"
    /\ Len(campaign.statuses) = 4

\* C13 (as claimed): a call that returns has status completed and holds in
\* published_content exactly one PublishResult per platform of target_platforms.
C13_OneResultPerPlatform ==
    Returned =>
        /\ Result.status = "completed"
        /\ DOMAIN Result.published_content = Targets(Result)
        /\ \A p \in DOMAIN Result.published_content :
              IsPublishResult(Result.published_content[p])

\* C14 (as claimed): with an empty target_platforms list, or a platform id
\* that has no registered adapter, the call fails before any external call and
\* never reaches status completed.
C14_InvalidTargetsFail ==
    (/\ campaign.pc # "idle"
     /\ \/ campaign.state.target_platforms = <<>>
        \/ ~(Targets(campaign.state) \subseteq RegisteredAdapters))
        => /\ campaign.state.status # "completed"
           /\ ~Returned
           /\ collaborators.publish = <<>>

\* C15: when the content generation step fails, the call raises instead of
\* returning a campaign result, no publish_content call was made, and no
\* memory record of the campaign was written.
C15_GenerationFailureIsFatal ==
    (campaign.pc # "idle" /\ campaign.failed_at = "generate_content")
        => /\ campaign.pc = "raised"
           /\ campaign.result = <<>>
           /\ collaborators.publish = <<>>
           /\ collaborators.memory = <<>>

C15_Witness ==
    /\ campaign.pc = "raised"
    /\ campaign.failed_at = "generate_content"
    /\ campaign.statuses = <<"started", "brief_analyzed">>
    /\ Len(campaign.state.target_platforms) = 3

\* C16 (as claimed): once a campaign has reached content_generated, the
\* content generation collaborator has been invoked exactly once, and no
\* publish_content call was made before that invocation.
C16_GeneratesExactlyOnce ==
    (campaign.pc # "idle" /\ campaign.state.status \in {"content_generated", "completed"})
        => collaborators.generate = 1

\* C17 (as claimed): the status is completed only when every platform of
\* target_platforms has a recorded result.
C17_FanInBarrier ==
    (campaign.pc # "idle" /\ campaign.state.status = "completed")
        => \A p \in Targets(campaign.state) :
              p \in DOMAIN campaign.state.published_content

(***************************************************************************)
(* VectorStoreManager (memory/vector_store.py).  ChromaDB and the sentence *)
(* transformer are external: each of their calls either answers or raises, *)
(* chosen by the environment.  The collection is persistent, so it         *)
(* survives close() and a later initialize().                              *)
(***************************************************************************)
MaxRecords == 2     \* most records the collection holds at once

\* self.client, self.collection, self.encoder after each step of initialize
InitializeSteps == {"client_raises", "collection_raises", "encoder_raises", "ok"}

VectorStoreManager_initialize(v, answer) ==
    IF answer = "client_raises"
    THEN [vs |-> v, outcome |-> Raise("PersistentClient")]
    ELSE LET v1 == [v EXCEPT !.client = "client"] IN
    IF answer = "collection_raises"
    THEN [vs |-> v1, outcome |-> Raise("get_or_create_collection")]
    ELSE LET v2 == [v1 EXCEPT !.collection = "collection"] IN
    IF answer = "encoder_raises"
    THEN [vs |-> v2, outcome |-> Raise("SentenceTransformer")]
    ELSE [vs |-> [v2 EXCEPT !.encoder = "encoder"], outcome |-> Return(None)]

VectorStoreManager_close(v) ==
    [client |-> None, collection |-> None, encoder |-> None]

\* datetime.now(): the model's calls all happen within one second
now == "now"

\* hash(content) % 100000: some function of the content
hash(text) == Len(text)

\* self.encoder.encode(content).tolist(): some function of the content
encode(text) == <<Len(text)>>

\* f"{metadata.get('type', 'text')}_{hash(content) % 100000}_{int(timestamp)}"
generated_id(text, metadata) ==
    <<DictGet(metadata, "type", "text"), "_", hash(text), "_", now>>

\* {**metadata, "stored_at": ..., "content_length": len(content)}
store_metadata(text, metadata) ==
    DictSet(DictSet(metadata, "stored_at", now), "content_length", Len(text))

\* collection.add on an id the collection holds never replaces the record:
\* depending on the ChromaDB release it is ignored or raises
AddAnswers == {"ok", "duplicate_raises", "raises"}

collection_add(db, id, record, answer) ==
    IF answer = "raises"
    THEN [chroma |-> db, outcome |-> Raise("add")]
    ELSE IF id \in DOMAIN db
    THEN [chroma |-> db,
          outcome |-> IF answer = "duplicate_raises"
                      THEN Raise("DuplicateIDError") ELSE Return(None)]
    ELSE [chroma |-> [k \in DOMAIN db \cup {id} |->
                         IF k = id THEN record ELSE db[k]],
          outcome |-> Return(None)]

EncodeAnswers == {"ok", "raises"}

\* content_id is a string, <<>> standing for None and for ""
VectorStoreManager_store_content(v, db, text, metadata, content_id, encoded, added) ==
    IF v.collection = None \/ v.encoder = None
    THEN [chroma |-> db, outcome |-> Raise("Vector store not initialized")]
    ELSE IF encoded = "raises"
    THEN [chroma |-> db, outcome |-> Raise("encode")]
    ELSE LET id == IF content_id = <<>>
                   THEN generated_id(text, metadata) ELSE content_id
             record == [embedding |-> encode(text),
                        document |-> text,
                        metadata |-> store_metadata(text, metadata)]
             add == collection_add(db, id, record, added)
         IN  IF add.outcome.kind = "raise"
             THEN add
             ELSE [chroma |-> add.chroma, outcome |-> Return(id)]

GetAnswers == {"ok", "raises"}

\* an Optional[dict] is <<>> for None and <<d>> for the dict d
VectorStoreManager_get_content_by_id(v, db, content_id, answer) ==
    IF v.collection = None \/ answer = "raises"
    THEN Return(<<>>)
    ELSE IF content_id \in DOMAIN db
    THEN Return(<<[content |-> db[content_id].document,
                   metadata |-> db[content_id].metadata,
                   id |-> content_id]>>)
    ELSE Return(<<>>)

DeleteAnswers == {"ok", "raises"}

VectorStoreManager_delete_content(v, db, content_id, answer) ==
    IF v.collection = None \/ answer = "raises"
    THEN [chroma |-> db, outcome |-> Return(FALSE)]
    ELSE [chroma |-> [k \in DOMAIN db \ {content_id} |-> db[k]],
          outcome |-> Return(TRUE)]

\* results['distances']: ChromaDB's default squared L2 distance
distance(e1, e2) == (e1[1] - e2[1]) * (e1[1] - e2[1])

\* the score is the distance itself
distance_as_score(d) == d

\* "similarity_score": 1 - results['distances'][0][i]
similarity_score(d) == 1 - d

\* where=...: every key of the clause is in the metadata with that value
matches_where(metadata, where) ==
    \A k \in DOMAIN where : k \in DOMAIN metadata /\ metadata[k] = where[k]

\* the n_results nearest records
query_limited(n, size) == Min(n, size)

\* the orders in which collection.query may answer: the n_results nearest
\* records that satisfy the where clause, nearest first, ties in any order
QueryOrders(db, e, n, where) ==
    LET hits == {k \in DOMAIN db : matches_where(db[k].metadata, where)}
        all == {o \in [1..Cardinality(hits) -> hits] :
                   /\ \A i, j \in DOMAIN o : i # j => o[i] # o[j]
                   /\ \A i, j \in DOMAIN o :
                          i < j => distance(e, db[o[i]].embedding)
                                       <= distance(e, db[o[j]].embedding)}
    IN  {SubSeq(o, 1, query_limited(n, Len(o))) : o \in all}

QueryAnswers == {"ok", "raises"}

\* filter_metadata is a dict, the empty dict standing for None as well;
\* order is the answer of collection.query
VectorStoreManager_search_similar_content(v, db, query, limit, filter_metadata, answer, order) ==
    IF v.collection = None \/ v.encoder = None
    THEN Return(<<>>)
    ELSE IF answer = "raises" \/ limit <= 0
    THEN Return(<<>>)
    ELSE Return([i \in 1..Len(order) |->
                    [content |-> db[order[i]].document,
                     metadata |-> db[order[i]].metadata,
                     similarity_score |->
                         similarity_score(distance(encode(query),
                                                   db[order[i]].embedding)),
                     id |-> order[i]]])

\* the inputs of the store's callers
StoreTexts == {<<"a">>, <<"b", "c">>}
StoreMetadatas == {[type |-> "campaign_memory"], [content_length |-> 99]}
ContentIds == {<<"x">>, <<"y">>}
Queries == {<<"a">>, <<"b", "c", "d", "e">>}
Limits == {0, 1, 2}
Filters == {EmptyDict, [type |-> "campaign_memory"]}

InitStore ==
    /\ StoreConstructed
    /\ AppConstructed
    /\ NoCampaign
    /\ NoOptimize
    /\ AdaptersConstructed

StoreInitialize ==
    \E answer \in InitializeSteps :
        /\ vs' = VectorStoreManager_initialize(vs, answer).vs
        /\ UNCHANGED <<chroma, vsLast, optimizeVars, adapterVars, campaignVars, appVars>>

StoreClose ==
    /\ vs' = VectorStoreManager_close(vs)
    /\ UNCHANGED <<chroma, vsLast, optimizeVars, adapterVars, campaignVars, appVars>>

StoreContent ==
    \E text \in StoreTexts, metadata \in StoreMetadatas,
       content_id \in ContentIds \cup {<<>>},
       encoded \in EncodeAnswers, added \in AddAnswers :
        LET r == VectorStoreManager_store_content(
                     vs, chroma, text, metadata, content_id, encoded, added)
        IN  /\ encoded = "raises" => added = "ok"   \* add is not reached
            /\ Cardinality(DOMAIN r.chroma) <= MaxRecords
            /\ chroma' = r.chroma
            /\ vsLast' = <<[op |-> "store_content", content_id |-> content_id,
                            content |-> text, metadata |-> metadata,
                            answer |-> added,
                            existed |-> content_id \in DOMAIN chroma,
                            outcome |-> r.outcome]>>
            /\ UNCHANGED <<vs, optimizeVars, adapterVars, campaignVars, appVars>>

GetContentById ==
    \E content_id \in ContentIds, answer \in GetAnswers :
        /\ vsLast' = <<[op |-> "get_content_by_id", content_id |-> content_id,
                        content |-> <<>>, metadata |-> EmptyDict,
                        answer |-> answer,
                        existed |-> content_id \in DOMAIN chroma,
                        outcome |-> VectorStoreManager_get_content_by_id(
                                        vs, chroma, content_id, answer)]>>
        /\ UNCHANGED <<vs, chroma, optimizeVars, adapterVars, campaignVars, appVars>>

DeleteContent ==
    \E content_id \in ContentIds, answer \in DeleteAnswers :
        LET r == VectorStoreManager_delete_content(
                     vs, chroma, content_id, answer)
        IN  /\ chroma' = r.chroma
            /\ vsLast' = <<[op |-> "delete_content", content_id |-> content_id,
                            content |-> <<>>, metadata |-> EmptyDict,
                            answer |-> answer,
                            existed |-> content_id \in DOMAIN chroma,
                            outcome |-> r.outcome]>>
            /\ UNCHANGED <<vs, optimizeVars, adapterVars, campaignVars, appVars>>

SearchSimilarContent ==
    \E query \in Queries, limit \in Limits, filter_metadata \in Filters,
       answer \in QueryAnswers :
        \E order \in QueryOrders(chroma, encode(query), limit, filter_metadata) :
            /\ answer = "raises" => limit = 1         \* the arguments are not used
            /\ vsLast' = <<[op |-> "search_similar_content",
                            content_id |-> <<>>,
                            content |-> query, metadata |-> filter_metadata,
                            answer |-> answer, limit |-> limit,
                            existed |-> FALSE,
                            outcome |-> VectorStoreManager_search_similar_content(
                                            vs, chroma, query, limit,
                                            filter_metadata, answer, order)]>>
            /\ UNCHANGED <<vs, chroma, optimizeVars, adapterVars, campaignVars, appVars>>

NextStore ==
    \/ StoreInitialize
    \/ StoreClose
    \/ StoreContent
    \/ GetContentById
    \/ DeleteContent
    \/ SearchSimilarContent

SpecStore == InitStore /\ [][NextStore]_vars

(***************************************************************************)
(* Properties of the vector store.                                         *)
(***************************************************************************)
Called(op) == vsLast # <<>> /\ vsLast[1].op = op
LastCall == vsLast[1]

\* the call went through to the collection and no external call failed
Stored(call) ==
    /\ call.op = "store_content"
    /\ call.content_id # <<>>
    /\ \/ call.outcome.kind = "return"
       \/ call.outcome.error = "DuplicateIDError"

\* this step is get_content_by_id(id) on an initialized store, right after
\* the store_content call under the same id
GetAfterStore ==
    /\ vsLast # <<>>
    /\ Stored(LastCall)
    /\ vs.collection # None
    /\ vsLast' # <<>>
    /\ vsLast'[1].op = "get_content_by_id"
    /\ vsLast'[1].answer = "ok"
    /\ vsLast'[1].content_id = LastCall.content_id

Got == vsLast'[1].outcome.value

\* C18: after store_content(t1, m1, id) and then store_content(t2, m2, id),
\* get_content_by_id(id) returns the record of the second call, with
\* content t2.
C18_SecondStoreOverwrites ==
    [][ (GetAfterStore /\ LastCall.existed)
            => (Got # <<>> /\ Got[1].content = LastCall.content) ]_vars

\* C19: on an initialized store, get_content_by_id(id) after
\* store_content(text, metadata, id) returns a record whose content is text
\* and whose metadata is exactly the metadata passed: no key added, removed
\* or changed.
C19_RoundTrip ==
    [][ (GetAfterStore /\ LastCall.outcome.kind = "return")
            => /\ Got # <<>>
               /\ Got[1].content = LastCall.content
               /\ DOMAIN Got[1].metadata = DOMAIN LastCall.metadata
               /\ \A k \in DOMAIN LastCall.metadata :
                      Got[1].metadata[k] = LastCall.metadata[k] ]_vars

\* C20: on an initialized store delete_content(id) never raises, returns
\* false when no record with that id exists, and returns true only when a
\* record was deleted.
C20_DeleteReportsAbsence ==
    (Called("delete_content") /\ vs.collection # None)
        => /\ LastCall.outcome.kind = "return"
           /\ ~LastCall.existed => LastCall.outcome.value = FALSE
           /\ LastCall.outcome.value = TRUE
                  => (LastCall.existed /\ LastCall.content_id \notin DOMAIN chroma)

\* this step is a call of store_content, search_similar_content,
\* get_content_by_id or delete_content
StoreCall == vsLast' # vsLast

\* C21: every operation called before initialize has succeeded fails with
\* an error the caller sees, never with a normal-looking result.
C21_UninitializedCallsFail ==
    [][ (StoreCall /\ vs.encoder = None)
            => vsLast'[1].outcome.kind = "raise" ]_vars

Found == LastCall.outcome.value

\* C22: search_similar_content(query, limit, filter) returns at most limit
\* results, in non-increasing similarity_score order, each with the
\* similarity 1 - distance and with metadata that matches the filter.
C22_SearchBoundedSortedFiltered ==
    Called("search_similar_content")
        => /\ LastCall.outcome.kind = "return"
           /\ Len(Found) <= LastCall.limit
           /\ \A i, j \in DOMAIN Found :
                  i < j => Found[i].similarity_score >= Found[j].similarity_score
           /\ \A i \in DOMAIN Found :
                  /\ Found[i].similarity_score
                         = 1 - distance(encode(LastCall.content),
                                        encode(Found[i].content))
                  /\ matches_where(Found[i].metadata, LastCall.metadata)

\* a filtered search that found two records at different distances
C22_Witness ==
    /\ Called("search_similar_content")
    /\ LastCall.metadata # EmptyDict
    /\ Len(Found) = 2
    /\ Found[1].similarity_score > Found[2].similarity_score

(***************************************************************************)
(* Properties of the agents' lifecycle.                                    *)
(***************************************************************************)
\* this step is a shutdown() call
ShutdownCall ==
    /\ lifecycle' \in {"shutdown", "shutdown_raised"}
    /\ UNCHANGED <<published, crm>>

\* C23: shutdown of every platform adapter and of the CRM agent never
\* raises, whether or not initialize succeeded before, and is idempotent: a
\* second shutdown leaves the agent in the disconnected state of the first.
C23_ShutdownIdempotent ==
    [][ ShutdownCall
            => /\ lifecycle' = "shutdown"
               /\ graph' = None /\ client' = None
               /\ lifecycle = "shutdown" => UNCHANGED <<graph, client, lifecycle>>
      ]_vars

\* a Twitter agent shut down although its initialize never succeeded
C23_Witness ==
    /\ platform = "twitter"
    /\ lifecycle = "shutdown"
    /\ client = None

Updated == crm # <<>>
LastUpdate == crm[1]

\* C24: update_campaign_results posts the opportunity status "won" exactly
\* when the campaign status is "completed" and "open" otherwise (a missing
\* status included); when the CRM call raises or answers with a code other
\* than 200 and 201 it returns a failed result, and it never raises.
C24_StatusMapping ==
    Updated =>
        /\ LastUpdate.outcome.kind = "return"
        /\ LastUpdate.outcome.value.status \in {"success", "failed"}
        /\ \A i \in DOMAIN LastUpdate.calls :
               /\ LastUpdate.calls[i].status \in {"won", "open"}
               /\ LastUpdate.calls[i].status = "won"
                      <=> /\ "status" \in DOMAIN LastUpdate.campaign_data
                          /\ LastUpdate.campaign_data.status = "completed"
        /\ (\/ LastUpdate.answer.kind = "raises"
            \/ LastUpdate.answer.status_code \notin {200, 201})
               => LastUpdate.outcome.value.status = "failed"

\* a campaign whose status is not the exact string "completed" was posted as
\* open, and the CRM rejected the post
C24_Witness ==
    /\ Updated
    /\ LastUpdate.campaign_data = [status |-> "Completed"]
    /\ LastUpdate.calls # <<>> /\ LastUpdate.calls[1].status = "open"
    /\ LastUpdate.answer.kind = "response"
    /\ LastUpdate.answer.status_code = 500
    /\ LastUpdate.outcome.value.status = "failed"

(***************************************************************************)
(* MCPManager (mcp/connectors.py).  Connectors are objects: mcp.objects    *)
(* holds them, and the registry self.connectors maps a name to the index   *)
(* of one of them.  connect() of a connector answers True, answers False,  *)
(* or raises.                                                              *)
(***************************************************************************)
MaxConnectors == 3  \* most connector objects the callers construct

ConnectorNames == {"facebook", "twitter"}
ConnectAnswers == {"ok", "false", "raises"}

\* MCPConnector.__init__
MCPConnector(name) == [name |-> name, is_connected |-> FALSE]

\* connect(): self.is_connected = True; return True
connect(connector, answer) ==
    IF answer = "ok" THEN [connector EXCEPT !.is_connected = TRUE] ELSE connector

\* disconnect(): self.is_connected = False
disconnect(connector) == [connector EXCEPT !.is_connected = FALSE]

\* register_connector(objects[i]); the registry keeps one connector per name
MCPManager_register_connector(m, i, answer) ==
    LET objects == [m.objects EXCEPT ![i] = connect(m.objects[i], answer)]
    IN  [objects |-> objects,
         connectors |-> IF answer = "ok"
                        THEN DictSet(m.connectors, objects[i].name, i)
                        ELSE m.connectors,
         last |-> "register_connector"]

\* for connector in self.connectors.values(): disconnect; connectors.clear()
MCPManager_shutdown(m) ==
    LET registered == {m.connectors[n] : n \in DOMAIN m.connectors}
    IN  [objects |-> [i \in DOMAIN m.objects |->
                         IF i \in registered
                         THEN disconnect(m.objects[i]) ELSE m.objects[i]],
         connectors |-> EmptyDict,
         last |-> "shutdown"]

InitMCP ==
    /\ AppConstructed
    /\ StoreConstructed
    /\ NoCampaign
    /\ NoOptimize
    /\ AdaptersConstructed

\* a caller constructs a connector and registers it
RegisterNewConnector ==
    \E name \in ConnectorNames, answer \in ConnectAnswers :
        /\ Len(mcp.objects) < MaxConnectors
        /\ mcp' = MCPManager_register_connector(
                      [mcp EXCEPT !.objects = Append(@, MCPConnector(name))],
                      Len(mcp.objects) + 1, answer)
        /\ UNCHANGED <<app, optimizeVars, adapterVars, campaignVars, storeVars>>

\* a caller registers a connector it registered before
RegisterConnectorAgain ==
    \E i \in DOMAIN mcp.objects, answer \in ConnectAnswers :
        /\ mcp' = MCPManager_register_connector(mcp, i, answer)
        /\ UNCHANGED <<app, optimizeVars, adapterVars, campaignVars, storeVars>>

MCPShutdown ==
    /\ mcp' = MCPManager_shutdown(mcp)
    /\ UNCHANGED <<app, optimizeVars, adapterVars, campaignVars, storeVars>>

NextMCP == RegisterNewConnector \/ RegisterConnectorAgain \/ MCPShutdown

SpecMCP == InitMCP /\ [][NextMCP]_vars

\* C25: after any sequence of register_connector calls followed by
\* shutdown, the registry is empty and no connector is left connected.
C25_ShutdownDisconnectsAll ==
    mcp.last = "shutdown"
        => /\ mcp.connectors = EmptyDict
           /\ \A i \in DOMAIN mcp.objects : ~mcp.objects[i].is_connected

(***************************************************************************)
(* Properties of the adapters' connection state.                           *)
(***************************************************************************)
\* C26: TwitterAgent holds a client only when initialize verified the
\* credentials: after an initialize whose credential check failed the client
\* is None, and a later publish_content fails without calling create_tweet.
C26_ClientOnlyWhenVerified ==
    platform = "twitter" =>
        /\ lifecycle = "initialize_failed" => client = None
        /\ (Published /\ Last.lifecycle = "initialize_failed")
               => (LastStatus = "failed" /\ Last.calls = <<>>)

\* the tweet publish_content composes from a content, before its own cut
composed_tweet(c) ==
    IF DictGet(c, "hashtags", <<>>) # <<>>
    THEN with_hashtags(DictGet(c, "text", <<>>), c.hashtags)
    ELSE DictGet(c, "text", <<>>)

\* C27: the tweet publish_content composes from the output of Twitter's
\* optimize_content has at most 280 characters, so publish_content sends it
\* as composed and cuts no hashtag.
C27_ComposedTweetFits ==
    (Optimized /\ platform = "twitter")
        => /\ Len(composed_tweet(Value(heap, optimized))) <= 280
           /\ tweet_text(Value(heap, optimized))
                  = composed_tweet(Value(heap, optimized))

\* C28: between shutdown() and the next initialize(), every publish_content
\* call returns a Failure and makes no external call, on all four adapters.
C28_NoPublishAfterShutdown ==
    (Published /\ Last.lifecycle = "shutdown")
        => /\ Last.outcome.kind = "return"
           /\ LastStatus = "failed"
           /\ Last.calls = <<>>

(***************************************************************************)
(* The frame of optimize_content.                                          *)
(***************************************************************************)
OtherKeys(d) == DOMAIN d \ {"text", "hashtags"}

\* C30: optimize_content changes only what violates a constraint.  On
\* Facebook, Instagram and TikTok a text within the limit and a hashtag list
\* whose length is within [minHashtags, maxHashtags] come back unchanged; on
\* all four adapters every other key comes back with its input value.
C30_FrameOfOptimize ==
    Optimized =>
        /\ (platform # "twitter" /\ Len(InText) <= MaxTextLength(platform))
              => /\ OutText = InText
                 /\ "text" \in DOMAIN heap.dict[optimized]
                        <=> "text" \in DOMAIN before.dict
        /\ (platform # "twitter" /\ MinHashtags(platform) <= Len(InTags)
                                 /\ Len(InTags) <= MaxHashtags(platform))
              => /\ OutTags = InTags
                 /\ "hashtags" \in DOMAIN heap.dict[optimized]
                        <=> "hashtags" \in DOMAIN before.dict
        /\ OtherKeys(heap.dict[optimized]) = OtherKeys(before.dict)
        /\ \A k \in OtherKeys(before.dict) :
               heap.dict[optimized][k] = before.dict[k]

\* an Instagram content within every limit, with an image_url
C30_Witness ==
    /\ Optimized /\ platform = "instagram"
    /\ Len(InText) = 299 /\ Len(InTags) = 12
    /\ "image_url" \in DOMAIN before.dict
    /\ OutText = InText /\ OutTags = InTags
    /\ heap.dict[optimized].image_url = before.dict.image_url

(***************************************************************************)
(* The application lifespan (main.py).  Each awaited call is one step.     *)
(* app.trace lists the calls the lifespan made and whether each raised;    *)
(* app.agents holds, per sub-agent of the ExecutiveAgent, how its          *)
(* initialize ended.  An exception in the lifespan is not caught: it       *)
(* leaves the lifespan at once (pc "failed").                              *)
(***************************************************************************)
TraceEntry(call, raised) == [call |-> call, raised |-> raised]

\* ChatOpenAI(...) and the other constructors in ExecutiveAgent.__init__
ConstructorAnswers == {"ok", "raises"}

\* initialize of content_factory and of analytics_agent
CollaboratorAnswers == {"ok", "raises"}

\* the sub-agents after their initialize: each catches its own exceptions
initialized_agents(answers) ==
    [p \in Agents |-> IF initialize_succeeds(p, answers[p])
                      THEN "initialized" ELSE "initialize_failed"]

\* asyncio.gather(...) without return_exceptions passes on what a member raises
ExecutiveAgent_initialize(factory, analytics) ==
    IF factory = "raises" THEN Raise("content_factory.initialize")
    ELSE IF analytics = "raises" THEN Raise("analytics_agent.initialize")
    ELSE Return(None)

\* the lifespan ends with whatever the awaited call raised
lifespan_propagates(a, call) ==
    [a EXCEPT !.pc = "failed", !.trace = Append(@, TraceEntry(call, TRUE))]

\* the lifespan goes on to its next statement
lifespan_continues(a, call, pc) ==
    [a EXCEPT !.pc = pc, !.trace = Append(@, TraceEntry(call, FALSE))]

InitLifespan ==
    /\ settings \in [FACEBOOK_ACCESS_TOKEN : Tokens, TIKTOK_ACCESS_TOKEN : Tokens]
    /\ graph = None
    /\ client = None
    /\ lifecycle = "constructed"
    /\ published = <<>>
    /\ crm = <<>>
    /\ AppConstructed
    /\ StoreConstructed
    /\ NoCampaign
    /\ NoOptimize

\* vector_store = VectorStoreManager(); await vector_store.initialize()
LifespanInitializeStore ==
    /\ app.pc = "start"
    /\ \E answer \in InitializeSteps :
           LET r == VectorStoreManager_initialize(vs, answer)
           IN  /\ vs' = r.vs
               /\ app' = IF r.outcome.kind = "raise"
                         THEN lifespan_propagates(app, "vector_store.initialize")
                         ELSE lifespan_continues(app, "vector_store.initialize",
                                                 "store_ready")
    /\ UNCHANGED <<mcp, chroma, vsLast, optimizeVars, adapterVars, campaignVars>>

\* executive_agent = ExecutiveAgent(vector_store=vector_store)
LifespanConstructAgent ==
    /\ app.pc = "store_ready"
    /\ \E answer \in ConstructorAnswers :
           app' = IF answer = "raises"
                  THEN lifespan_propagates(app, "ExecutiveAgent")
                  ELSE lifespan_continues(app, "ExecutiveAgent", "constructed")
    /\ UNCHANGED <<mcp, optimizeVars, adapterVars, campaignVars, storeVars>>

\* await executive_agent.initialize()
LifespanInitializeAgent ==
    /\ app.pc = "constructed"
    /\ \E answers \in [Agents -> InitializeAnswers],
          factory \in CollaboratorAnswers, analytics \in CollaboratorAnswers :
           LET r == ExecutiveAgent_initialize(factory, analytics)
               a == [app EXCEPT !.agents = initialized_agents(answers)]
           IN  /\ graph' = FacebookAgent_initialize(graph, answers.facebook)
               /\ client' = TwitterAgent_initialize(client, answers.twitter)
               /\ app' = IF r.kind = "raise"
                         THEN lifespan_propagates(a, "executive_agent.initialize")
                         ELSE lifespan_continues(a, "executive_agent.initialize",
                                                 "serving")
    /\ UNCHANGED <<mcp, settings, lifecycle, published, crm, optimizeVars, campaignVars, storeVars>>

\* the server stops: the lifespan resumes after yield with
\* await executive_agent.shutdown()
LifespanShutdownAgent ==
    /\ app.pc = "serving"
    /\ graph' = shutdown("facebook", graph, client).graph
    /\ client' = shutdown("twitter", graph, client).client
    /\ app' = lifespan_continues([app EXCEPT !.agents = [p \in Agents |-> "shutdown"]],
                                 "executive_agent.shutdown", "agent_shutdown")
    /\ UNCHANGED <<mcp, settings, lifecycle, published, crm, optimizeVars, campaignVars, storeVars>>

\* await vector_store.close()
LifespanCloseStore ==
    /\ app.pc = "agent_shutdown"
    /\ vs' = VectorStoreManager_close(vs)
    /\ app' = lifespan_continues(app, "vector_store.close", "exited")
    /\ UNCHANGED <<mcp, chroma, vsLast, optimizeVars, adapterVars, campaignVars>>

NextLifespan ==
    \/ LifespanInitializeStore
    \/ LifespanConstructAgent
    \/ LifespanInitializeAgent
    \/ LifespanShutdownAgent
    \/ LifespanCloseStore

SpecLifespan == InitLifespan /\ [][NextLifespan]_vars

\* the position of a call in the trace, 0 if it was not made
TracePos(call) ==
    IF \E i \in DOMAIN app.trace : app.trace[i].call = call
    THEN CHOOSE i \in DOMAIN app.trace : app.trace[i].call = call
    ELSE 0

StoreInitialized ==
    /\ TracePos("vector_store.initialize") # 0
    /\ ~app.trace[TracePos("vector_store.initialize")].raised

\* C29: on every path out of the lifespan on which VectorStoreManager
\* initialize succeeded, close has been called, the path where
\* ExecutiveAgent.initialize raises included; on normal shutdown the
\* executive agent is shut down before the vector store is closed.
C29_StoreClosedOnEveryExit ==
    /\ (app.pc \in {"failed", "exited"} /\ StoreInitialized)
           => TracePos("vector_store.close") # 0
    /\ app.pc = "exited"
           => /\ TracePos("executive_agent.shutdown") # 0
              /\ TracePos("executive_agent.shutdown") < TracePos("vector_store.close")

====
